---- MODULE Spec2Model ----
(***************************************************************************)
(* Model of oop_assignment.py: one Device-family object (a plain Device or *)
(* a Smartphone, decided at construction) driven by its public operations, *)
(* and the garage of Vehicle variants whose move() is called in any order. *)
(*                                                                         *)
(* Python integers are unbounded, so no width is modelled.  Arguments are  *)
(* integers, on which int(x) is x.  Python's // is floor division, which   *)
(* is what \div computes for a positive divisor.  The pictograph that ends *)
(* each move() string is not representable here and is left out; the words *)
(* before it already tell the three strings apart.                         *)
(***************************************************************************)
EXTENDS Integers, Sequences, FiniteSets

VARIABLES kind, battery, apps, last, results

vars == <<kind, battery, apps, last, results>>

(* ----------------------------- bounds --------------------------------- *)

\* constructor arguments range over (0 - CtorSlack)..(100 + CtorSlack)
CtorSlack == 20
\* charge amounts range over -MaxAmount..MaxAmount
MaxAmount == 10
\* use durations range over -MaxNegMinutes..MaxMinutes
MaxMinutes == 25
\* call durations range over -MaxNegMinutes..MaxCallMinutes
MaxCallMinutes == 5
\* how far below zero a duration goes
MaxNegMinutes == 6
\* how many distinct app names the caller ever passes
NumApps == 2

AllNames == <<"Maps", "Chat", "Music", "Mail", "Notes">>
Names == {AllNames[i] : i \in 1..NumApps}
CtorLevels == (0 - CtorSlack)..(100 + CtorSlack)
Amounts == (0 - MaxAmount)..MaxAmount
UseMinutes == (0 - MaxNegMinutes)..MaxMinutes
CallMinutes == (0 - MaxNegMinutes)..MaxCallMinutes

(* --------------------------- program constants ------------------------ *)

\* default of Device.__init__/Smartphone.__init__ parameter battery_level
DefaultBatteryLevel == 100
\* default of Smartphone.call parameter minutes
DefaultCallMinutes == 1

(* ------------------------------ helpers ------------------------------- *)

Max(a, b) == IF a >= b THEN a ELSE b
Min(a, b) == IF a <= b THEN a ELSE b
ToInt(x) == x

\* `name in self.apps`
Contains(s, name) == \E i \in 1..Len(s) : s[i] = name

(* ------------------------------ Device -------------------------------- *)

Device_init_NoCap(battery_level) == Max(0, ToInt(battery_level))
Device_init(battery_level) == Max(0, Min(100, ToInt(battery_level)))

Device_charge_NoCap(b, amount) == Max(0, b + ToInt(amount))
Device_charge_Positive(b, amount) == Max(0, Min(100, b + Max(0, ToInt(amount))))
Device_charge(b, amount) == Max(0, Min(100, b + ToInt(amount)))

Device_drain(b, amount) == Max(0, b - ToInt(amount))

\* the local `drain` of Device.use
Device_use_drain(minutes) == Max(0, minutes \div 10)
Device_use(b, minutes) == Device_drain(b, Device_use_drain(minutes))

(* ----------------------------- Smartphone ----------------------------- *)

\* Smartphone.__init__: super().__init__ then apps = []
Smartphone_init(battery_level) ==
    [battery |-> Device_init(battery_level), apps |-> <<>>]

Smartphone_install_app_DrainAlways(self, name) ==
    IF ~Contains(self.apps, name)
    THEN [battery |-> Device_drain(self.battery, 1), apps |-> Append(self.apps, name)]
    ELSE [battery |-> Device_drain(self.battery, 1), apps |-> self.apps]
Smartphone_install_app_Prepend(self, name) ==
    IF ~Contains(self.apps, name)
    THEN [battery |-> Device_drain(self.battery, 1), apps |-> <<name>> \o self.apps]
    ELSE self
Smartphone_install_app(self, name) ==
    IF ~Contains(self.apps, name)
    THEN [battery |-> Device_drain(self.battery, 1), apps |-> Append(self.apps, name)]
    ELSE self

\* the local `drain` of Smartphone.call
Smartphone_call_drain_Raw(minutes) == minutes
Smartphone_call_drain_MinZero(minutes) == Max(0, minutes)
Smartphone_call_drain(minutes) == Max(1, minutes)
Smartphone_call(b, minutes) == Device_drain(b, Smartphone_call_drain(minutes))

\* the local `drain` of Smartphone.use
Smartphone_use_drain_Inherited(minutes) == Max(0, minutes \div 10)
Smartphone_use_drain(minutes) == Max(0, minutes \div 5)
Smartphone_use(b, minutes) == Device_drain(b, Smartphone_use_drain(minutes))

\* method resolution of obj.use(minutes) on the runtime class of obj
use_drain(cls, minutes) ==
    IF cls = "Smartphone" THEN Smartphone_use_drain(minutes)
    ELSE Device_use_drain(minutes)
use_Static(cls, b, minutes) == Device_use(b, minutes)
use(cls, b, minutes) ==
    IF cls = "Smartphone" THEN Smartphone_use(b, minutes)
    ELSE Device_use(b, minutes)

(* ------------------------------ Vehicle ------------------------------- *)

\* the abstract body: raise NotImplementedError
Vehicle_move == "NotImplementedError"
Car_move == "Driving"
Bike_move == "Riding"
Plane_move == "Flying"

garage == <<"Car", "Bike", "Plane">>

\* method resolution of v.move() on the runtime class of v
move_Static(cls) == Vehicle_move
move(cls) ==
    CASE cls = "Car" -> Car_move
      [] cls = "Bike" -> Bike_move
      [] cls = "Plane" -> Plane_move
      [] OTHER -> Vehicle_move

(* --------------------------- state machine ---------------------------- *)

\* `last` records the most recent call on the object: its name, the value
\* of its integer parameter, whether that parameter was passed, the app
\* name, the object's state before the call and the amounts handed to _drain.
Called(op, arg, given, name, drained) ==
    [op |-> op, arg |-> arg, given |-> given, name |-> name,
     before |-> battery, appsBefore |-> apps, drained |-> drained]

Init ==
    /\ kind \in {"Device", "Smartphone"}
    /\ \E given \in BOOLEAN :
         \E b \in (IF given THEN CtorLevels ELSE {DefaultBatteryLevel}) :
           /\ battery = (IF kind = "Smartphone"
                         THEN Smartphone_init(b).battery
                         ELSE Device_init(b))
           /\ apps = (IF kind = "Smartphone" THEN Smartphone_init(b).apps ELSE <<>>)
           /\ last = [op |-> "init", arg |-> b, given |-> given, name |-> "",
                      before |-> 0, appsBefore |-> <<>>, drained |-> <<>>]
    /\ results = [i \in 1..Len(garage) |-> ""]

Charge ==
    \E amount \in Amounts :
      /\ battery' = Device_charge(battery, amount)
      /\ last' = Called("charge", amount, TRUE, "", <<>>)
      /\ UNCHANGED <<kind, apps, results>>

Use ==
    \E minutes \in UseMinutes :
      /\ battery' = use(kind, battery, minutes)
      /\ last' = Called("use", minutes, TRUE, "", <<use_drain(kind, minutes)>>)
      /\ UNCHANGED <<kind, apps, results>>

InstallApp ==
    /\ kind = "Smartphone"
    /\ \E name \in Names :
         LET self == [battery |-> battery, apps |-> apps]
             new == Smartphone_install_app(self, name)
         IN /\ battery' = new.battery
            /\ apps' = new.apps
            /\ last' = Called("install_app", 0, TRUE, name,
                              IF ~Contains(apps, name) THEN <<1>> ELSE <<>>)
    /\ UNCHANGED <<kind, results>>

Call ==
    /\ kind = "Smartphone"
    /\ \E given \in BOOLEAN :
         \E minutes \in (IF given THEN CallMinutes ELSE {DefaultCallMinutes}) :
           /\ battery' = Smartphone_call(battery, minutes)
           /\ last' = Called("call", minutes, given, "",
                             <<Smartphone_call_drain(minutes)>>)
    /\ UNCHANGED <<kind, apps, results>>

\* one iteration of `for v in garage: v.move()`, for any element
Move ==
    /\ \E i \in 1..Len(garage) :
         results' = [results EXCEPT ![i] = move(garage[i])]
    /\ UNCHANGED <<kind, battery, apps, last>>

Next == Charge \/ Use \/ InstallApp \/ Call \/ Move

Spec == Init /\ [][Next]_vars

(* ------------------------- checked properties ------------------------- *)

Clamp(x, lo, hi) == IF x < lo THEN lo ELSE IF x > hi THEN hi ELSE x
Count(s, name) == Cardinality({i \in 1..Len(s) : s[i] = name})
NoDuplicates(s) == \A i, j \in 1..Len(s) : s[i] = s[j] => i = j
IsPrefix(s, t) == Len(s) <= Len(t) /\ \A i \in 1..Len(s) : s[i] = t[i]
Self == [battery |-> battery, apps |-> apps]

\* C1: whatever the constructor argument and whatever public operations
\* followed, with whatever integer arguments, battery_level is in [0, 100].
BatteryInRange == battery \in 0..100

\* C1 witness: a charge that would have overshot 100 was capped.
BatteryInRange_Witness ==
    /\ last.op = "charge"
    /\ last.before + last.arg > 100
    /\ battery = 100

\* C2: right after construction battery_level is clamp(b, 0, 100) of the
\* argument b (100 above 100, 0 below 0, b otherwise), and 100 when the
\* argument is omitted.
CtorClamps ==
    last.op = "init" =>
      /\ last.given =>
           battery = (IF last.arg > 100 THEN 100
                      ELSE IF last.arg < 0 THEN 0 ELSE last.arg)
      /\ ~last.given => battery = 100

\* C2 witness: a Smartphone constructed with a level above 100.
CtorClamps_Witness ==
    /\ last.op = "init" /\ last.given
    /\ kind = "Smartphone"
    /\ last.arg > 100
    /\ battery = 100

\* C3: charge(amount) sets the battery to clamp(battery + amount, 0, 100);
\* a negative amount lowers it, floored at 0, exactly as draining -amount.
ChargeClamps ==
    last.op = "charge" =>
      /\ battery = Clamp(last.before + last.arg, 0, 100)
      /\ last.arg < 0 =>
           /\ battery <= last.before
           /\ battery = Max(0, last.before - (0 - last.arg))

\* C3 witness: a negative charge that hit the floor.
ChargeClamps_Witness ==
    /\ last.op = "charge"
    /\ last.arg < 0
    /\ last.before > 0
    /\ last.before + last.arg < 0
    /\ battery = 0

\* C4: use(minutes) follows the runtime class: a Device ends at
\* max(0, battery - max(0, minutes div 10)), a Smartphone at
\* max(0, battery - max(0, minutes div 5)); negative minutes change nothing.
\* Device at 50: charge(10) gives 60, then use(25) gives 58.
UseDispatch ==
    /\ last.op = "use" =>
         /\ kind = "Device" =>
              battery = Max(0, last.before - Max(0, last.arg \div 10))
         /\ kind = "Smartphone" =>
              battery = Max(0, last.before - Max(0, last.arg \div 5))
         /\ last.arg < 0 => battery = last.before
         /\ (kind = "Device" /\ last.before = 60 /\ last.arg = 25) => battery = 58
    /\ (last.op = "charge" /\ last.before = 50 /\ last.arg = 10) => battery = 60

\* C4 witness: a Smartphone used for 25 minutes from 60 ends at 55, where
\* the Device formula would give 58.
UseDispatch_Witness ==
    /\ kind = "Smartphone"
    /\ last.op = "use"
    /\ last.before = 60 /\ last.arg = 25
    /\ battery = 55

\* C5 as stated: for every duration and equal starting level, Smartphone.use
\* lowers the battery by twice what Device.use lowers it by.
UseTwiceDevice ==
    (kind = "Smartphone" /\ last.op = "use") =>
      last.before - battery = 2 * (last.before - Device_use(last.before, last.arg))

\* C5 amended: the same, for durations that are negative or have
\* minutes mod 10 < 5, and starting levels of at least minutes div 5.
UseTwiceDeviceAligned ==
    (/\ kind = "Smartphone" /\ last.op = "use"
     /\ (last.arg < 0 \/ last.arg % 10 < 5)
     /\ last.before >= last.arg \div 5) =>
      last.before - battery = 2 * (last.before - Device_use(last.before, last.arg))

\* C5 witness: use(20) on a Smartphone at 100 drains 4, a Device drains 2.
UseTwiceDeviceAligned_Witness ==
    /\ kind = "Smartphone" /\ last.op = "use"
    /\ last.before = 100 /\ last.arg = 20
    /\ battery = 96
    /\ Device_use(100, 20) = 98

\* C6 as stated: every call lowers battery_level by at least 1, namely by
\* max(1, minutes).
CallDrainsAtLeastOne ==
    last.op = "call" =>
      /\ battery <= last.before - 1
      /\ last.before - battery = Max(1, last.arg)

\* C6 amended: every call leaves battery_level at
\* max(0, battery - max(1, minutes)); it lowers the level by at least 1
\* whenever the level was at least 1, and by exactly max(1, minutes)
\* whenever the level was at least that much.
CallDrainsFloored ==
    last.op = "call" =>
      /\ battery = Max(0, last.before - Max(1, last.arg))
      /\ last.before >= 1 => battery <= last.before - 1
      /\ last.before >= Max(1, last.arg) =>
           last.before - battery = Max(1, last.arg)

\* C6 witness: a call of zero or negative duration drained exactly 1.
CallDrainsFloored_Witness ==
    /\ last.op = "call" /\ last.given
    /\ last.arg <= 0
    /\ last.before >= 1
    /\ battery = last.before - 1

\* C7 as stated: install_app of a new name, once or twice in a row, leaves
\* the name exactly once at the end of apps and the battery exactly 1 lower;
\* install_app of a name already present changes nothing.
InstallTwiceDrainsOne ==
    /\ last.op = "install_app" =>
         /\ ~Contains(last.appsBefore, last.name) =>
              /\ apps = Append(last.appsBefore, last.name)
              /\ Count(apps, last.name) = 1
              /\ battery = last.before - 1
         /\ Contains(last.appsBefore, last.name) =>
              /\ apps = last.appsBefore
              /\ battery = last.before
    /\ kind = "Smartphone" =>
         \A name \in Names :
           ~Contains(apps, name) =>
             LET once == Smartphone_install_app(Self, name)
                 twice == Smartphone_install_app(once, name)
             IN /\ twice = once
                /\ twice.battery = battery - 1

\* C7 amended: as stated, except that the battery ends at
\* max(0, battery - 1): exactly 1 lower from a level of at least 1, and
\* still 0 from level 0.
InstallTwiceDrainsOnce ==
    /\ last.op = "install_app" =>
         /\ ~Contains(last.appsBefore, last.name) =>
              /\ apps = Append(last.appsBefore, last.name)
              /\ Count(apps, last.name) = 1
              /\ battery = Max(0, last.before - 1)
         /\ Contains(last.appsBefore, last.name) =>
              /\ apps = last.appsBefore
              /\ battery = last.before
    /\ kind = "Smartphone" =>
         \A name \in Names :
           ~Contains(apps, name) =>
             LET once == Smartphone_install_app(Self, name)
                 twice == Smartphone_install_app(once, name)
             IN /\ twice = once
                /\ Count(twice.apps, name) = 1
                /\ twice.apps = Append(apps, name)
                /\ twice.battery = Max(0, battery - 1)

\* C7 witness: the second install_app of a name, right after the first,
\* changed nothing, and the first had drained 1.
InstallTwiceDrainsOnce_Witness ==
    /\ last.op = "install_app"
    /\ Len(last.appsBefore) > 0
    /\ last.appsBefore[Len(last.appsBefore)] = last.name
    /\ apps = last.appsBefore
    /\ battery = last.before
    /\ battery = 99

\* C8: apps never holds a name twice; it is empty after construction; every
\* operation leaves the previous apps as a prefix of the new apps, and only
\* install_app of a new name extends it, by that name at the end.
AppsUniqueAppendOnly ==
    /\ NoDuplicates(apps)
    /\ last.op = "init" => apps = <<>>
    /\ last.op # "init" =>
         /\ IsPrefix(last.appsBefore, apps)
         /\ apps # last.appsBefore =>
              /\ last.op = "install_app"
              /\ ~Contains(last.appsBefore, last.name)
              /\ apps = Append(last.appsBefore, last.name)

\* C8 witness: a second, different name was appended after the first.
AppsUniqueAppendOnly_Witness ==
    /\ last.op = "install_app"
    /\ Len(last.appsBefore) = 1
    /\ Len(apps) = 2
    /\ apps[1] = last.appsBefore[1]
    /\ apps[2] = last.name

\* C9: each element of the garage [Car, Bike, Plane] answers move() with
\* its own variant's constant, whatever the order and number of calls; the
\* three answers differ pairwise and none is the Vehicle default.
MoveDispatch ==
    /\ \A i \in 1..Len(garage) :
         results[i] # "" =>
           /\ garage[i] = "Car" => results[i] = "Driving"
           /\ garage[i] = "Bike" => results[i] = "Riding"
           /\ garage[i] = "Plane" => results[i] = "Flying"
           /\ results[i] # Vehicle_move
    /\ \A i, j \in 1..Len(garage) :
         (i # j /\ results[i] # "" /\ results[j] # "") => results[i] # results[j]

\* C9 witness: move() has been called on all three elements.
MoveDispatch_Witness ==
    /\ \A i \in 1..Len(garage) : results[i] # ""
    /\ Cardinality({results[i] : i \in 1..Len(garage)}) = 3

\* C10: use, install_app and call never raise battery_level, and every
\* amount they hand to _drain is non-negative; only charge with a positive
\* amount raises the level.
OnlyChargeRaises ==
    last.op # "init" =>
      /\ last.op \in {"use", "install_app", "call"} =>
           /\ battery <= last.before
           /\ \A i \in 1..Len(last.drained) : last.drained[i] >= 0
      /\ battery > last.before => (last.op = "charge" /\ last.arg > 0)

\* C10 witness: a call with a negative duration still lowered the level.
OnlyChargeRaises_Witness ==
    /\ last.op = "call"
    /\ last.arg < 0
    /\ last.drained = <<1>>
    /\ battery < last.before

====
